---- MODULE Spec2Model ----
(***************************************************************************)
(* RawArray (src/src/lib.rs): the container RawArray<T>, its constructors, *)
(* reshape, and the file reader and writer; and the command line tool      *)
(* (src/src/bin/ra.rs).                                                    *)
(*                                                                         *)
(* A file is the sequence of its bytes.  A u64 of the header is written as *)
(* its 8 little-endian bytes and read back from 8 bytes.  An element of T  *)
(* is the tuple of its size_of(T) bytes in memory, so that as_u8_slice and *)
(* from_u8, which reinterpret memory, are a flattening and a chunking.     *)
(***************************************************************************)
EXTENDS Integers, Sequences, FiniteSets, TLC

VARIABLES ra, file, src, outcome, steps

vars == <<ra, file, src, outcome, steps>>

(***************************************************************************)
(* Bounds of the model.                                                    *)
(***************************************************************************)
\* longest data vector handed to From<Vec<T>> and clone_with_data
MaxLen == 2
\* largest entry of a dims vector handed to reshape or found in a file
MaxDim == 2
\* longest dims vector handed to reshape or found in a file
MaxNDims == 2
\* largest size field of a file that the program did not write itself
MaxSize == 4
\* u64 values of U64Cap and above are collapsed to U64Cap (see from_le_bytes)
U64Cap == 16777216

(***************************************************************************)
(* Type registry: impl RawArrayType for ..., lib.rs 100-179                *)
(***************************************************************************)
Types ==
  {"i8", "i16", "i32", "i64", "i128", "u8", "u16", "u32", "u64", "u128",
   "f32", "f64", "Complex<f32>", "Complex<f64>", "bf16", "f16"}

ra_type_code(T) ==
  CASE T \in {"i8", "i16", "i32", "i64", "i128"} -> 1
    [] T \in {"u8", "u16", "u32", "u64", "u128"} -> 2
    [] T \in {"f32", "f64", "f16"} -> 3
    [] T \in {"Complex<f32>", "Complex<f64>"} -> 4
    [] T = "bf16" -> 5
    [] OTHER -> 0

\* mem::size_of::<T>()
size_of(T) ==
  CASE T \in {"i8", "u8"} -> 1
    [] T \in {"i16", "u16", "bf16", "f16"} -> 2
    [] T \in {"i32", "u32", "f32"} -> 4
    [] T \in {"i64", "u64", "f64", "Complex<f32>"} -> 8
    [] T \in {"i128", "u128", "Complex<f64>"} -> 16

(***************************************************************************)
(* Flags and magic, lib.rs 45-53                                           *)
(***************************************************************************)
FLAG_BIG_ENDIAN == 1
FLAG_ENCODED == 2
FLAG_BITS == 4

RECURSIVE BitAnd(_, _)
BitAnd(a, b) ==
  IF a = 0 \/ b = 0 THEN 0
  ELSE (IF a % 2 = 1 /\ b % 2 = 1 THEN 1 ELSE 0) + 2 * BitAnd(a \div 2, b \div 2)

RECURSIVE BitOr(_, _)
BitOr(a, b) ==
  IF a = 0 THEN b
  ELSE IF b = 0 THEN a
  ELSE (IF a % 2 = 1 \/ b % 2 = 1 THEN 1 ELSE 0) + 2 * BitOr(a \div 2, b \div 2)

ALL_KNOWN_FLAGS == BitOr(BitOr(FLAG_BIG_ENDIAN, FLAG_ENCODED), FLAG_BITS)

\* 0x79_61_72_72_61_77_61_72 does not fit TLC's integers: the constant is
\* held as the 8 bytes u64::to_le_bytes gives for it ("rawarray").
MAGIC_NUMBER == <<114, 97, 119, 97, 114, 114, 97, 121>>

(***************************************************************************)
(* u64 <-> bytes, lib.rs 248-257                                           *)
(***************************************************************************)
RECURSIVE le_bytes(_, _)
le_bytes(n, k) ==
  IF k = 0 THEN <<>> ELSE <<n % 256>> \o le_bytes(n \div 256, k - 1)

\* u64::to_le_bytes
to_le_bytes(n) == le_bytes(n, 8)

\* u64::from_le_bytes.  Values below 2^24 are exact; a word with a nonzero
\* byte above its third stands for a value of 2^24 or more, held as U64Cap.
from_le_bytes(b) ==
  IF \E i \in 4..8 : b[i] # 0 THEN U64Cap
  ELSE b[1] + 256 * b[2] + 65536 * b[3]

\* u64 multiplication on the collapsed values
mul_u64(a, b) ==
  IF a = 0 \/ b = 0 THEN 0
  ELSE IF a >= U64Cap \/ b >= U64Cap THEN U64Cap
  ELSE IF a > (U64Cap - 1) \div b THEN U64Cap
  ELSE a * b

\* write_u64(w, n): the stream w with n appended
write_u64(w, n) == w \o to_le_bytes(n)

\* read_u64 at byte offset pos: r.read_exact needs 8 bytes, else it panics
can_read_u64(bytes, pos) == pos + 8 <= Len(bytes)
read_u64(bytes, pos) == from_le_bytes(SubSeq(bytes, pos + 1, pos + 8))

(***************************************************************************)
(* Element buffers <-> bytes, lib.rs 259-282                               *)
(***************************************************************************)
\* as_u8_slice with the slice length not scaled by element_size
as_u8_slice_unscaled(v, T) ==
  LET element_size == size_of(T)
  IN  [i \in 1..Len(v) |->
         v[((i - 1) \div element_size) + 1][((i - 1) % element_size) + 1]]

\* as_u8_slice: the v.len() * element_size bytes of the buffer
as_u8_slice(v, T) ==
  LET element_size == size_of(T)
  IN  [i \in 1..(Len(v) * element_size) |->
         v[((i - 1) \div element_size) + 1][((i - 1) % element_size) + 1]]

\* from_u8: the two assertions, then the reinterpretation
from_u8_ok(v, capacity, T) ==
  /\ capacity % size_of(T) = 0
  /\ Len(v) % size_of(T) = 0

from_u8(v, T) ==
  LET element_size == size_of(T)
  IN  [k \in 1..(Len(v) \div element_size) |->
         SubSeq(v, (k - 1) * element_size + 1, k * element_size)]

(***************************************************************************)
(* The container, lib.rs 233-241, and its constructors                     *)
(***************************************************************************)
NoRA == [T |-> "none"]

RECURSIVE product(_)
product(dims) ==
  IF dims = <<>> THEN 1 ELSE mul_u64(Head(dims), product(Tail(dims)))

\* Default for RawArray<T>
Default(T) ==
  [T |-> T, flags |-> 0, eltype |-> ra_type_code(T), elbyte |-> size_of(T),
   size |-> 0, ndims |-> 0, dims |-> <<>>, data |-> <<>>]

\* From<Vec<T>> for RawArray<T>
From(T, v) ==
  [T |-> T, flags |-> 0, eltype |-> ra_type_code(T), elbyte |-> size_of(T),
   size |-> Len(v) * size_of(T), ndims |-> 1, dims |-> <<Len(v)>>, data |-> v]

clone_with_data(self, data) ==
  [T |-> self.T, flags |-> self.flags, eltype |-> self.eltype,
   elbyte |-> self.elbyte, size |-> self.size, ndims |-> self.ndims,
   dims |-> self.dims, data |-> data]

\* reshape without its assert_eq!
reshape_unchecked(self, new_dims) == TRUE

\* reshape: the assert_eq!, then the assignment of dims
reshape_ok(self, new_dims) == product(new_dims) = product(self.dims)
reshape(self, new_dims) == [self EXCEPT !.dims = new_dims]

(***************************************************************************)
(* write, lib.rs 543-577                                                   *)
(***************************************************************************)
RECURSIVE write_dims(_, _)
write_dims(w, dims) ==
  IF dims = <<>> THEN w ELSE write_dims(write_u64(w, Head(dims)), Tail(dims))

\* write_header: magic, flags, eltype, elbyte, size, ndims, then every entry
\* of self.dims
write_header(self) ==
  LET w1 == MAGIC_NUMBER
      w2 == write_u64(w1, self.flags)
      w3 == write_u64(w2, self.eltype)
      w4 == write_u64(w3, self.elbyte)
      w5 == write_u64(w4, self.size)
      w6 == write_u64(w5, self.ndims)
  IN  write_dims(w6, self.dims)

write_data(self) == as_u8_slice(self.data, self.T)

\* write: the bytes the file holds afterwards
write(self) == write_header(self) \o write_data(self)

(***************************************************************************)
(* read, lib.rs 479-541.  A read ends "ok" or with the failure of the      *)
(* first check that fails, named after the error kind of the check:        *)
(*   InvalidFormat       assert_eq!(magic, MAGIC_NUMBER)          (482)    *)
(*   UnsupportedFeature  panic!("Unknown flags ...")              (485)    *)
(*   TypeMismatch        assert_eq!(eltype ..), assert_eq!(elbyte ..) (493)*)
(*   CorruptHeader       assert_eq!(nelem * elbyte, size)         (506)    *)
(*   TruncatedFile       assert_eq!(bytes_read, size)             (514)    *)
(*   ShortHeader         read_u64: expect("unable to read a u64") (250)    *)
(*   CastPanic           the assertions of from_u8                (266)    *)
(*   IOFailure           File::open(path)?                        (535)    *)
(***************************************************************************)
\* the magic compared on its low 32 bits only
magic_matches_low32(magic) == SubSeq(magic, 1, 4) = SubSeq(MAGIC_NUMBER, 1, 4)

magic_matches(magic) == magic = MAGIC_NUMBER

\* the condition under which read_header panics on the flags
flags_panic(flags) == BitAnd(flags, ALL_KNOWN_FLAGS) # 0

eltype_matches(eltype, T) == eltype = ra_type_code(T)

\* read_header without the assert_eq! on elbyte
elbyte_matches_any(elbyte, T) == TRUE

elbyte_matches(elbyte, T) == elbyte = size_of(T)

size_matches(dims, elbyte, size) == mul_u64(product(dims), elbyte) = size

\* the for loop of read_header: ndims words from offset pos on
read_dims(bytes, pos, ndims) ==
  [i \in 1..ndims |-> read_u64(bytes, pos + 8 * (i - 1))]

Fail(kind, self, pos, passed) ==
  [res |-> kind, self |-> self, pos |-> pos, passed |-> passed]

\* read_header on a fresh RawArray::<T>::default(): the result, the
\* container as populated so far, the stream position and the checks passed
read_header(T, bytes) ==
  LET s0 == Default(T)
  IN
  IF ~can_read_u64(bytes, 0) THEN Fail("ShortHeader", s0, 0, <<>>)
  ELSE IF ~magic_matches(SubSeq(bytes, 1, 8)) THEN Fail("InvalidFormat", s0, 8, <<>>)
  ELSE IF ~can_read_u64(bytes, 8) THEN Fail("ShortHeader", s0, 8, <<"magic">>)
  ELSE
  LET s1 == [s0 EXCEPT !.flags = read_u64(bytes, 8)]
  IN
  IF flags_panic(s1.flags) THEN Fail("UnsupportedFeature", s1, 16, <<"magic">>)
  ELSE IF ~can_read_u64(bytes, 16) THEN Fail("ShortHeader", s1, 16, <<"magic", "flags">>)
  ELSE
  LET s2 == [s1 EXCEPT !.eltype = read_u64(bytes, 16)]
  IN
  IF ~eltype_matches(s2.eltype, T) THEN Fail("TypeMismatch", s2, 24, <<"magic", "flags">>)
  ELSE IF ~can_read_u64(bytes, 24)
    THEN Fail("ShortHeader", s2, 24, <<"magic", "flags", "eltype">>)
  ELSE
  LET s3 == [s2 EXCEPT !.elbyte = read_u64(bytes, 24)]
      p3 == <<"magic", "flags", "eltype">>
      p4 == <<"magic", "flags", "eltype", "elbyte">>
  IN
  IF ~elbyte_matches(s3.elbyte, T) THEN Fail("TypeMismatch", s3, 32, p3)
  ELSE IF ~can_read_u64(bytes, 32) THEN Fail("ShortHeader", s3, 32, p4)
  ELSE
  LET s4 == [s3 EXCEPT !.size = read_u64(bytes, 32)]
  IN
  IF ~can_read_u64(bytes, 40) THEN Fail("ShortHeader", s4, 40, p4)
  ELSE
  LET s5 == [s4 EXCEPT !.ndims = read_u64(bytes, 40)]
      avail == (Len(bytes) - 48) \div 8
  IN
  IF s5.ndims > avail
    THEN Fail("ShortHeader", [s5 EXCEPT !.dims = read_dims(bytes, 48, avail)],
              48 + 8 * avail, p4)
  ELSE
  LET s6 == [s5 EXCEPT !.dims = read_dims(bytes, 48, s5.ndims)]
      end == 48 + 8 * s5.ndims
  IN
  IF ~size_matches(s6.dims, s6.elbyte, s6.size) THEN Fail("CorruptHeader", s6, end, p4)
  ELSE [res |-> "ok", self |-> s6, pos |-> end, passed |-> Append(p4, "size")]

\* read_data with read_exact on a buffer of self.size bytes in place of
\* read_to_end: the bytes after the first self.size are left in the stream
read_data_exact(self, bytes, pos) ==
  LET left == Len(bytes) - pos
      byte_data == SubSeq(bytes, pos + 1, pos + self.size)
  IN  IF left < self.size THEN [res |-> "TruncatedFile", self |-> self]
      ELSE IF ~from_u8_ok(byte_data, self.size, self.T)
        THEN [res |-> "CastPanic", self |-> self]
      ELSE [res |-> "ok", self |-> [self EXCEPT !.data = from_u8(byte_data, self.T)]]

\* read_data: read_to_end takes every byte left in the stream; the buffer
\* was allocated with_capacity(self.size) and is not grown when
\* bytes_read = self.size
read_data(self, bytes, pos) ==
  LET byte_data == SubSeq(bytes, pos + 1, Len(bytes))
      bytes_read == Len(byte_data)
      capacity == self.size
  IN  IF bytes_read # self.size THEN [res |-> "TruncatedFile", self |-> self]
      ELSE IF ~from_u8_ok(byte_data, capacity, self.T)
        THEN [res |-> "CastPanic", self |-> self]
      ELSE [res |-> "ok", self |-> [self EXCEPT !.data = from_u8(byte_data, self.T)]]

\* read::<T>(path) of a file holding bytes
read(T, bytes) ==
  LET h == read_header(T, bytes)
  IN  IF h.res # "ok" THEN [res |-> h.res, ra |-> NoRA, passed |-> h.passed]
      ELSE LET d == read_data(h.self, bytes, h.pos)
           IN  IF d.res # "ok"
                 THEN [res |-> d.res, ra |-> NoRA, passed |-> Append(h.passed, "data")]
               ELSE [res |-> "ok", ra |-> d.self, passed |-> Append(h.passed, "data")]

(***************************************************************************)
(* Inputs                                                                  *)
(***************************************************************************)
\* the k-th element value of T used as data, as its bytes in memory
Elem(T, k) ==
  [i \in 1..size_of(T) |-> IF i = 1 THEN k ELSE IF i = 2 THEN 1 ELSE 0]

\* the Vec<T> values handed to From and clone_with_data: for each length up
\* to MaxLen the buffer of that many pairwise different elements
Vecs(T) == {[k \in 1..n |-> Elem(T, k)] : n \in 0..MaxLen}

\* the Vec<u64> values handed to reshape, and the dims of foreign files
DimVecs == UNION {[1..n -> 0..MaxDim] : n \in 0..MaxNDims}

NoFile == [exists |-> FALSE, bytes |-> <<>>]

\* A file the program did not write (examples/simple.rs reads
\* examples/test.ra first): any magic, flags, eltype, elbyte and size, dims
\* with its count, and a payload of one byte less than size, of size bytes,
\* or of one byte more.
BadMagic == <<114, 97, 119, 97, 114, 114, 97, 120>>
BadMagics == {BadMagic, <<113, 97, 119, 97, 114, 114, 97, 121>>}

\* the flags of foreign files: none, each known bit, a bit outside the known
\* ones, and a known bit with one outside
FlagVals == {0, FLAG_BIG_ENDIAN, FLAG_ENCODED, FLAG_BITS, 8, 9}

\* (eltype, elbyte) of foreign files: i8, bf16, and a code no type has
HeaderKinds == {<<1, 1>>, <<5, 2>>, <<0, 4>>}

PayloadByte(i) == IF i % 8 = 1 THEN 3 ELSE IF i % 8 = 2 THEN 1 ELSE 0

ForeignFile(magic, flags, kind, size, dims, paylen) ==
  LET w2 == write_u64(magic, flags)
      w3 == write_u64(w2, kind[1])
      w4 == write_u64(w3, kind[2])
      w5 == write_u64(w4, size)
      w6 == write_u64(w5, Len(dims))
  IN  write_dims(w6, dims) \o [i \in 1..paylen |-> PayloadByte(i)]

PayloadLens(size) == {q \in {size - 1, size, size + 1} : q >= 0}

ForeignFiles ==
  UNION {{ForeignFile(m, f, k, s, d, p) :
            m \in {MAGIC_NUMBER, BadMagic}, f \in FlagVals,
            k \in HeaderKinds, d \in DimVecs, p \in PayloadLens(s)} :
         s \in 0..MaxSize}

\* files cut short inside the header
ShortFiles ==
  {SubSeq(ForeignFile(m, 0, <<1, 1>>, 1, <<1>>, 1), 1, n) :
     m \in {MAGIC_NUMBER} \cup BadMagics, n \in {0, 7, 8, 15, 16, 24, 32, 40, 48, 55}}

(***************************************************************************)
(* State.                                                                  *)
(*   ra       the program's container, NoRA before one is built            *)
(*   file     the file at the path the program writes and reads            *)
(*   src      the container that wrote the file; NoRA for a foreign file   *)
(*   outcome  the last operation and how it ended                          *)
(*   steps    the checks the last read passed, in order                    *)
(* The programs of the repository (tests bf16 and f16, the examples) build *)
(* a container, write it, read the file back and remove the file: the      *)
(* operations on containers are taken while no file is at the path.  They  *)
(* neither read nor write the file, and read and write replace the whole   *)
(* container and the whole file.  A container is built (new, from) where   *)
(* the program holds none yet.                                             *)
(***************************************************************************)
Result(op, res) == [op |-> op, res |-> res]
ReshapeResult(res, new_dims) ==
  [op |-> "reshape", res |-> res, new_nelem |-> product(new_dims)]

\* the program starts with no container and no file at its path
Init ==
  /\ ra = NoRA
  /\ file = NoFile
  /\ src = NoRA
  /\ outcome = Result("init", "ok")
  /\ steps = <<>>

\* RawArray::<T>::new()
New(T) ==
  /\ ~file.exists
  /\ ra = NoRA
  /\ ra' = Default(T)
  /\ outcome' = Result("new", "ok")
  /\ steps' = <<>>
  /\ UNCHANGED <<file, src>>

\* let ra: RawArray<T> = v.into()
FromVec(T, v) ==
  /\ ~file.exists
  /\ ra = NoRA
  /\ ra' = From(T, v)
  /\ outcome' = Result("from", "ok")
  /\ steps' = <<>>
  /\ UNCHANGED <<file, src>>

\* ra.clone_with_data(data)
CloneWithData(data) ==
  /\ ~file.exists
  /\ ra # NoRA
  /\ ra' = clone_with_data(ra, data)
  /\ outcome' = Result("clone_with_data", "ok")
  /\ steps' = <<>>
  /\ UNCHANGED <<file, src>>

\* ra.reshape(new_dims): the failed assert_eq! leaves the container as it
\* was.  The outcome keeps new_nelem, the product of the dims handed in.
Reshape(new_dims) ==
  /\ ~file.exists
  /\ ra # NoRA
  /\ IF reshape_ok(ra, new_dims)
       THEN /\ ra' = reshape(ra, new_dims)
            /\ outcome' = ReshapeResult("ok", new_dims)
       ELSE /\ ra' = ra
            /\ outcome' = ReshapeResult("PreconditionViolation", new_dims)
  /\ steps' = <<>>
  /\ UNCHANGED <<file, src>>

\* ra.write(path)
Write ==
  /\ ra # NoRA
  /\ file' = [exists |-> TRUE, bytes |-> write(ra)]
  /\ src' = ra
  /\ outcome' = Result("write", "ok")
  /\ steps' = <<>>
  /\ UNCHANGED ra

\* RawArray::<T>::read(path): a container is returned only when the read
\* ends "ok"
Read(T) ==
  /\ IF ~file.exists
       THEN /\ outcome' = Result("read", "IOFailure")
            /\ steps' = <<>>
            /\ ra' = ra
       ELSE LET r == read(T, file.bytes)
            IN  /\ outcome' = Result("read", r.res)
                /\ steps' = r.passed
                /\ ra' = IF r.res = "ok" THEN r.ra ELSE ra
  /\ UNCHANGED <<file, src>>

\* fs::remove_file(path)
RemoveFile ==
  /\ file.exists
  /\ file' = NoFile
  /\ src' = NoRA
  /\ outcome' = Result("remove_file", "ok")
  /\ steps' = <<>>
  /\ UNCHANGED ra

Next ==
  \/ \E T \in Types : New(T)
  \/ \E T \in Types : \E v \in Vecs(T) : FromVec(T, v)
  \/ \E data \in (IF ra = NoRA THEN {} ELSE Vecs(ra.T)) : CloneWithData(data)
  \/ \E new_dims \in DimVecs : Reshape(new_dims)
  \/ Write
  \/ \E T \in Types : Read(T)
  \/ RemoveFile

Spec == Init /\ [][Next]_vars

(***************************************************************************)
(* read as a function of the file: a file the program did not write is at  *)
(* the path, and it is read as each type.                                  *)
(***************************************************************************)
InitRead ==
  /\ ra = NoRA
  /\ file \in {[exists |-> TRUE, bytes |-> b] : b \in ForeignFiles \cup ShortFiles}
  /\ src = NoRA
  /\ outcome = Result("init", "ok")
  /\ steps = <<>>

NextRead == \E T \in Types : Read(T)

SpecRead == InitRead /\ [][NextRead]_vars

(***************************************************************************)
(* The command line tool (src/src/bin/ra.rs) and the RawArrayFile handle   *)
(* it reads with (lib.rs 189-230).  A handle is the bytes of the file and  *)
(* a cursor; valid_open leaves the cursor at 0 because u64_at seeks back   *)
(* to where it started.  A call of main ends with                          *)
(*   res       "ok", or the io::Error main returns:                        *)
(*               IOFailure      File::open(path)?             (lib.rs 193) *)
(*               InvalidData    magic != MAGIC_NUMBER         (lib.rs 197) *)
(*               UnexpectedEof  read_exact(&mut buf)?    (lib.rs 209, 225) *)
(*   usage     whether print_usage ran                                     *)
(*   out       the numbers printed, in order                               *)
(*   accesses  the accesses to the file: "open", then one "read" for each  *)
(*             read_exact                                                  *)
(***************************************************************************)
\* the path of the file of the state, and a path where no file is
FilePath == "file.ra"
NoPath == "none.ra"

\* the commands of the match in main
Commands ==
  {"head", "flags", "eltype", "elbyte", "size", "ndims", "dims", "data", "reshape"}

CliResult(res, usage, out, accesses) ==
  [res |-> res, usage |-> usage, out |-> out, accesses |-> accesses]

\* RawArrayFile::u64_at(offset): the word at offset, the cursor restored
u64_at(bytes, offset) ==
  IF can_read_u64(bytes, offset)
    THEN [res |-> "ok", val |-> read_u64(bytes, offset)]
    ELSE [res |-> "UnexpectedEof", val |-> 0]

\* n successive RawArrayFile::u64() calls from the cursor pos on, stopping
\* at the first that fails: the words read and whether all n were read
u64_seq(bytes, pos, n) ==
  LET avail == IF Len(bytes) > pos THEN (Len(bytes) - pos) \div 8 ELSE 0
      got == IF n <= avail THEN n ELSE avail
  IN  [res |-> IF n <= avail THEN "ok" ELSE "UnexpectedEof",
       vals |-> read_dims(bytes, pos, got),
       reads |-> [i \in 1..(IF n <= avail THEN n ELSE avail + 1) |-> "read"]]

\* RawArrayFile::valid_open(path)
valid_open(f, path) ==
  IF path # FilePath \/ ~f.exists THEN [res |-> "IOFailure", accesses |-> <<"open">>]
  ELSE IF u64_at(f.bytes, 0).res # "ok"
    THEN [res |-> "UnexpectedEof", accesses |-> <<"open", "read">>]
  ELSE IF ~magic_matches(SubSeq(f.bytes, 1, 8))
    THEN [res |-> "InvalidData", accesses |-> <<"open", "read">>]
  ELSE [res |-> "ok", accesses |-> <<"open", "read">>]

\* the arm "head": magic, flags, eltype, elbyte, size, ndims, then ndims
\* dimensions, each printed as soon as it is read (the magic is not printed)
cmd_head(bytes) ==
  LET h == u64_seq(bytes, 0, 6)
  IN  IF h.res # "ok" THEN CliResult(h.res, FALSE, Tail(h.vals), h.reads)
      ELSE LET d == u64_seq(bytes, 48, h.vals[6])
           IN  CliResult(d.res, FALSE, Tail(h.vals) \o d.vals, h.reads \o d.reads)

\* the arms "flags", "eltype", "elbyte", "size", "ndims": one u64_at
cmd_field(bytes, offset) ==
  LET w == u64_at(bytes, offset)
  IN  CliResult(w.res, FALSE, IF w.res = "ok" THEN <<w.val>> ELSE <<>>, <<"read">>)

\* the arm "dims": seek(40) from the cursor at 0, ndims, then the dimensions
cmd_dims(bytes) ==
  LET n == u64_seq(bytes, 40, 1)
  IN  IF n.res # "ok" THEN CliResult(n.res, FALSE, <<>>, n.reads)
      ELSE LET d == u64_seq(bytes, 48, n.vals[1])
           IN  CliResult(d.res, FALSE, d.vals, n.reads \o d.reads)

\* the arm "data": prints 40 + ndims * 8
cmd_data(bytes) ==
  LET w == u64_at(bytes, 40)
      off == IF w.val >= U64Cap \div 8 THEN U64Cap ELSE 40 + w.val * 8
  IN  CliResult(w.res, FALSE, IF w.res = "ok" THEN <<off>> ELSE <<>>, <<"read">>)

\* the match on the command, the file open and its magic right
run_command(command, bytes) ==
  CASE command = "head" -> cmd_head(bytes)
    [] command = "flags" -> cmd_field(bytes, 8)
    [] command = "eltype" -> cmd_field(bytes, 16)
    [] command = "elbyte" -> cmd_field(bytes, 24)
    [] command = "size" -> cmd_field(bytes, 32)
    [] command = "ndims" -> cmd_field(bytes, 40)
    [] command = "dims" -> cmd_dims(bytes)
    [] command = "data" -> cmd_data(bytes)
    [] command = "reshape" -> CliResult("ok", FALSE, <<>>, <<>>)
    [] OTHER -> CliResult("ok", TRUE, <<>>, <<>>)

\* main with env::args() = args (args[1] is the program's name) and f the
\* file at FilePath: the file is opened before the command is matched
main(args, f) ==
  IF Len(args) < 3 THEN CliResult("ok", TRUE, <<>>, <<>>)
  ELSE LET command == args[2]
           filename == args[3]
           o == valid_open(f, filename)
       IN  IF o.res # "ok" THEN CliResult(o.res, FALSE, <<>>, o.accesses)
           ELSE LET c == run_command(command, f.bytes)
                IN  CliResult(c.res, c.usage, c.out, o.accesses \o c.accesses)

\* command lines: no argument, one argument, a command (one of the match,
\* or not) with a path, and reshape with its dimensions
CommandWords == Commands \cup {"bogus", "HEAD", FilePath}
ArgVecs ==
  {<<"ra">>}
    \cup {<<"ra", c>> : c \in CommandWords}
    \cup {<<"ra", c, q>> : c \in CommandWords, q \in {FilePath, NoPath}}
    \cup {<<"ra", "reshape", FilePath, "2", "3">>, <<"ra", "bogus", FilePath, "2">>}

\* the files the tool is run on: none, files cut short inside the header,
\* and whole files with a right or wrong magic
CliFiles ==
  {NoFile}
    \cup {[exists |-> TRUE, bytes |-> b] : b \in ShortFiles}
    \cup {[exists |-> TRUE, bytes |-> ForeignFile(m, f, <<1, 1>>, product(d), d, product(d))] :
            m \in {MAGIC_NUMBER, BadMagic}, f \in {0, 8}, d \in DimVecs}

MainResult(args, c) ==
  [op |-> "main", res |-> c.res, args |-> args, usage |-> c.usage, out |-> c.out]

\* one run of the tool; steps holds its accesses to the file
Main(args) ==
  /\ outcome' = MainResult(args, main(args, file))
  /\ steps' = main(args, file).accesses
  /\ UNCHANGED <<ra, file, src>>

InitCli ==
  /\ ra = NoRA
  /\ file \in CliFiles
  /\ src = NoRA
  /\ outcome = Result("init", "ok")
  /\ steps = <<>>

NextCli == \E args \in ArgVecs : Main(args)

SpecCli == InitCli /\ [][NextCli]_vars

(***************************************************************************)
(* Properties                                                              *)
(***************************************************************************)
\* what a file's header says, decoded independently of read_header
HasHeader(bytes) == Len(bytes) >= 48
FileMagicOk(bytes) == Len(bytes) >= 8 /\ SubSeq(bytes, 1, 8) = MAGIC_NUMBER
FileFlags(bytes) == read_u64(bytes, 8)
FileEltype(bytes) == read_u64(bytes, 16)
FileElbyte(bytes) == read_u64(bytes, 24)
FileSize(bytes) == read_u64(bytes, 32)
FileNdims(bytes) == read_u64(bytes, 40)
HasDims(bytes) == HasHeader(bytes) /\ Len(bytes) >= 48 + 8 * FileNdims(bytes)
FileDims(bytes) == [i \in 1..FileNdims(bytes) |-> read_u64(bytes, 48 + 8 * (i - 1))]
\* some bit outside {bit0, bit1, bit2} is set
HasUnknownBits(flags) == flags \div 8 # 0
\* the writer of the file was built from a flat buffer and not changed since
FlatBuilt(c) == c # NoRA /\ c = From(c.T, c.data)

\* C1: a container built from a flat buffer v of T, written and read back as
\* T, is read successfully with dims [len(v)] and data v.
C1_RoundTrip ==
  [][\A T \in Types :
       (outcome'.op = "read" /\ file.exists /\ FlatBuilt(src) /\ src.T = T /\ Read(T))
         => /\ outcome'.res = "ok"
            /\ ra'.dims = <<Len(src.data)>>
            /\ ra'.data = src.data]_vars

\* a two-element buffer of distinct elements of a 4-byte type came back
C1_Witness ==
  /\ outcome = Result("read", "ok")
  /\ FlatBuilt(src)
  /\ size_of(src.T) = 4
  /\ Len(src.data) = 2
  /\ src.data[1] # src.data[2]
  /\ ra.data = src.data
  /\ ra.dims = <<2>>

\* C2: in every container ndims equals the number of entries of dims.
C2_NdimsIsLenDims == ra # NoRA => ra.ndims = Len(ra.dims)

\* C3: a read of a file with good magic whose flags have a bit outside
\* {bit0, bit1, bit2} ends UnsupportedFeature; with no such bit it does not.
C3_FlagGate ==
  (outcome.op = "read" /\ file.exists /\ FileMagicOk(file.bytes) /\ Len(file.bytes) >= 16)
    => (HasUnknownBits(FileFlags(file.bytes)) <=> outcome.res = "UnsupportedFeature")

C5_HeaderArithmetic ==
  [][\A T \in Types :
       (/\ outcome'.op = "read"
        /\ file.exists
        /\ HasDims(file.bytes)
        /\ FileMagicOk(file.bytes)
        /\ ~HasUnknownBits(FileFlags(file.bytes))
        /\ FileEltype(file.bytes) = ra_type_code(T)
        /\ FileElbyte(file.bytes) = size_of(T)
        /\ Read(T))
         => LET consistent ==
                  FileSize(file.bytes)
                    = mul_u64(FileElbyte(file.bytes), product(FileDims(file.bytes)))
            IN  /\ ~consistent => outcome'.res = "CorruptHeader"
                /\ outcome'.res = "ok" => consistent]_vars

\* C6: a read of a file whose first 8 bytes are not the magic ends
\* InvalidFormat with no other check made, whatever follows.
C6_MagicGate ==
  (/\ outcome.op = "read"
   /\ file.exists
   /\ Len(file.bytes) >= 8
   /\ SubSeq(file.bytes, 1, 8) # MAGIC_NUMBER)
    => outcome.res = "InvalidFormat" /\ steps = <<>>

\* a bad magic won over flags with an unknown bit and a code no type has
C6_Witness ==
  /\ outcome = Result("read", "InvalidFormat")
  /\ HasHeader(file.bytes)
  /\ SubSeq(file.bytes, 1, 8) \in BadMagics
  /\ HasUnknownBits(FileFlags(file.bytes))
  /\ FileEltype(file.bytes) = 0

\* C7: a file written from a RawArray<A> and read as B, with B's type code
\* or width other than A's, ends TypeMismatch; after a read as T that ends
\* ok the container's eltype and elbyte are T's.
C7_TypeEnforcement ==
  [][\A B \in Types :
       (outcome'.op = "read" /\ Read(B))
         => /\ (/\ file.exists
                /\ src # NoRA
                /\ (ra_type_code(B) # ra_type_code(src.T) \/ size_of(B) # size_of(src.T)))
                 => outcome'.res = "TypeMismatch"
            /\ outcome'.res = "ok"
                 => ra'.eltype = ra_type_code(B) /\ ra'.elbyte = size_of(B)]_vars

\* a written file was read as a type of the same code and another width
C7_Witness ==
  /\ outcome = Result("read", "TypeMismatch")
  /\ file.exists
  /\ src # NoRA
  /\ steps = <<"magic", "flags", "eltype">>

\* C8: in every container size = elbyte * product(dims).
C8_SizeInvariant ==
  ra # NoRA => ra.size = mul_u64(ra.elbyte, product(ra.dims))

\* C9: after write the file holds magic, flags, eltype, elbyte, size, ndims,
\* exactly ndims dimension values and the bytes of the data, the fields being
\* the container's; a container built from a flat buffer of n elements gives
\* flags 0, T's code and width, size n * width, ndims 1 and dims [n].
C9_WriteLayout ==
  outcome.op = "write"
    => LET b == file.bytes
           n == Len(ra.data)
           w == size_of(ra.T)
       IN  /\ Len(b) = 48 + 8 * ra.ndims + w * n
           /\ SubSeq(b, 1, 8) = MAGIC_NUMBER
           /\ FileFlags(b) = ra.flags
           /\ FileEltype(b) = ra.eltype
           /\ FileElbyte(b) = ra.elbyte
           /\ FileSize(b) = ra.size
           /\ FileNdims(b) = ra.ndims
           /\ FileDims(b) = ra.dims
           /\ \A k \in 1..n :
                SubSeq(b, 48 + 8 * ra.ndims + w * (k - 1) + 1,
                       48 + 8 * ra.ndims + w * k) = ra.data[k]
           /\ FlatBuilt(ra)
                => /\ FileFlags(b) = 0
                   /\ FileEltype(b) = ra_type_code(ra.T)
                   /\ FileElbyte(b) = w
                   /\ FileSize(b) = n * w
                   /\ FileNdims(b) = 1
                   /\ FileDims(b) = <<n>>

\* C10: in every container data has product(dims) elements.
C10_DataLen == ra # NoRA => Len(ra.data) = product(ra.dims)

\* C11: a run of the tool with fewer than two arguments, or with a command
\* that is none of head, flags, eltype, elbyte, size, ndims, dims, data,
\* reshape, prints the usage text and neither opens nor reads the file.
C11_UsageNoFileAccess ==
  outcome.op = "main"
    => (Len(outcome.args) < 3 \/ outcome.args[2] \notin Commands
          => outcome.usage /\ steps = <<>>)

\* the first header check of the order magic, flags, eltype, elbyte,
\* size-consistency that a file with all its header words fails when read
\* as T, by the failure it is to end with; "none" when it passes them all
FirstFailure(bytes, T) ==
  IF ~FileMagicOk(bytes) THEN "InvalidFormat"
  ELSE IF HasUnknownBits(FileFlags(bytes)) THEN "UnsupportedFeature"
  ELSE IF FileEltype(bytes) # ra_type_code(T) THEN "TypeMismatch"
  ELSE IF FileElbyte(bytes) # size_of(T) THEN "TypeMismatch"
  ELSE IF FileSize(bytes) # mul_u64(FileElbyte(bytes), product(FileDims(bytes)))
    THEN "CorruptHeader"
  ELSE "none"

\* C12: a read as T of a file that fails one of the header checks magic,
\* flags, eltype, elbyte, size-consistency ends with the failure of the
\* first check it fails, in that order; the payload read is not started and
\* the caller gets no container.
C12_AbortOnValidationFailure ==
  [][\A T \in Types :
       (/\ outcome'.op = "read"
        /\ file.exists
        /\ HasDims(file.bytes)
        /\ FirstFailure(file.bytes, T) # "none"
        /\ Read(T))
         => /\ outcome'.res = FirstFailure(file.bytes, T)
            /\ \A i \in 1..Len(steps') : steps'[i] # "data"
            /\ ra' = ra]_vars

\* the last read got through the header and started read_data
ReadDataStarted ==
  /\ outcome.op = "read"
  /\ file.exists
  /\ Len(steps) > 0
  /\ steps[Len(steps)] = "data"
\* where the payload of a file starts, and how many bytes follow the header
PayloadStart(bytes) == 48 + 8 * FileNdims(bytes)
PayloadLen(bytes) == Len(bytes) - PayloadStart(bytes)

\* C13 as stated: after a valid header declaring size bytes, read_data fails
\* with TruncatedFile when fewer than size bytes follow the header, and
\* succeeds whenever at least size bytes follow it, with size / elbyte
\* elements taken from the first size payload bytes.
C13_PayloadAtLeastSize ==
  ReadDataStarted =>
    LET b == file.bytes
        size == FileSize(b)
    IN  /\ PayloadLen(b) < size => outcome.res = "TruncatedFile"
        /\ PayloadLen(b) >= size
             => /\ outcome.res = "ok"
                /\ Len(ra.data) = size \div FileElbyte(b)
                /\ as_u8_slice(ra.data, ra.T)
                     = SubSeq(b, PayloadStart(b) + 1, PayloadStart(b) + size)

\* C13 amended: after a valid header declaring size bytes, read_data reads
\* every byte that follows the header; it fails with TruncatedFile when the
\* number of bytes that follow differs from size, fewer or more, and when
\* exactly size bytes follow it succeeds with size / elbyte elements taken
\* from these bytes.
C13_PayloadExactlySize ==
  ReadDataStarted =>
    LET b == file.bytes
        size == FileSize(b)
    IN  /\ PayloadLen(b) # size => outcome.res = "TruncatedFile"
        /\ PayloadLen(b) = size
             => /\ outcome.res = "ok"
                /\ Len(ra.data) = size \div FileElbyte(b)
                /\ as_u8_slice(ra.data, ra.T) = SubSeq(b, PayloadStart(b) + 1, Len(b))

\* a payload of 4 bytes was read as two different 2-byte elements
C13_Witness ==
  /\ ReadDataStarted
  /\ outcome.res = "ok"
  /\ FileSize(file.bytes) = 4
  /\ PayloadLen(file.bytes) = 4
  /\ ra.elbyte = 2
  /\ Len(ra.data) = 2
  /\ ra.data[1] # ra.data[2]
====
